---- MODULE Spec2Model ----
(***************************************************************************)
(* Model of modules/cuda_plugin/src/kernels/mod.hpp as shipped: the Mod    *)
(* element-wise kernel dispatcher (CUDAPlugin::kernel::Mod) and the        *)
(* ArmPlugin ConvertLayout graph-rewrite passes with their helpers         *)
(* transpose_on_input, transpose_on_output and transpose_output_shape.     *)
(*                                                                         *)
(* A graph is a sequence of node records; a node's id is its index.  An    *)
(* edge is held by the consumer: inputs[k] = [node, port] names the output *)
(* that input k reads.  Permutation vectors keep the 0-based entries of    *)
(* the source; sequences are 1-based, hence the "+ 1" where one indexes.   *)
(***************************************************************************)
EXTENDS Integers, Sequences, FiniteSets, TLC

VARIABLES
    nodes,          \* the graph: sequence of node records
    nodes_to_run,   \* GraphRewrite's queue of node ids still to visit
    skip,           \* ids for which transformation_callback(node) is true
    applied,        \* log of callback invocations: [node, pass, status]
    calls,          \* log of helper calls: [fn, by, rank, threw, oob]
    trail,          \* helper functions called directly, in order
    entry,          \* what is being run: "ConvertLayout", "helpers" or "Mod"
    in0, in1,       \* Mod: the two input buffers
    out,            \* Mod: the output buffer
    mapper0, mapper1, \* Mod: broadcast flags of the two NumpyBroadcastMappers
    dims,           \* Mod: output tensor shape <<rows, cols>>
    pending         \* Mod: launched thread indices that have not run yet

vars == <<nodes, nodes_to_run, skip, applied, calls, trail, entry,
          in0, in1, out, mapper0, mapper1, dims, pending>>

graphVars == <<nodes, nodes_to_run, skip, applied, calls, trail>>
modVars == <<in0, in1, out, mapper0, mapper1, dims, pending>>

------------------------------------------------------------------------------
(* Bounds of the model *)

MaxRank == 6        \* output ranks 3..MaxRank are explored
MaxAxis == 6        \* MaxPool-8 axis attribute ranges over -MaxAxis..MaxAxis
MaxDim == 2         \* dimensions of directly transposed shapes: 1..MaxDim
MaxSteps == 2       \* direct helper calls chained on one value
MaxElems == 4       \* Mod: the output has at most MaxElems elements
MaxThreads == 2     \* Mod: max_threads_per_block ranges over 1..MaxThreads

\* Convolution and pooling outputs have a batch, a channel and at least one
\* spatial axis.
Ranks == {r \in 0..MaxRank : r >= 3}
Axes == (0 - MaxAxis)..MaxAxis

------------------------------------------------------------------------------
(* convert_layout.cpp: the permutation vectors *)

nchw_to_nhwc == <<0, 2, 3, 1>>
nhwc_to_nchw_crossed == <<0, 2, 3, 1>>
nhwc_to_nchw == <<0, 3, 1, 2>>

ncdhw_to_ndhwc == <<0, 2, 3, 4, 1>>
ndhwc_to_ncdhw_swapped == <<0, 4, 1, 3, 2>>
ndhwc_to_ncdhw == <<0, 4, 1, 2, 3>>

------------------------------------------------------------------------------
(* Graph primitives *)

Src(n, p) == [node |-> n, port |-> p]

NoAttrs == [strides |-> <<>>, dilations |-> <<>>, pads_begin |-> <<>>,
            pads_end |-> <<>>, kernel |-> <<>>, rounding_type |-> "",
            auto_pad |-> "", exclude_pad |-> FALSE,
            index_element_type |-> "", axis |-> 0]

\* A freshly made node: no runtime info, an auto-generated friendly name.
MkNode(id, type, inputs, shape, static, attrs, value) ==
    [type |-> type, inputs |-> inputs, name |-> <<type, id>>, rt |-> {},
     shape |-> shape, static |-> static, attrs |-> attrs, value |-> value]

\* The inputs (consumer id, input index) that read output p of node n.
Consumers(g, n, p) ==
    {ck \in (1..Len(g)) \X (1..3) :
        /\ ck[2] <= Len(g[ck[1]].inputs)
        /\ g[ck[1]].inputs[ck[2]] = Src(n, p)}

\* Shape inference of Transpose: out[i] = in[order[i]].
TransposeShape(shape, order) ==
    [i \in 1..Len(order) |-> shape[order[i] + 1]]

\* make_shared<Transpose>(input, Constant::create(i32, {order.size()}, order))
MakeTranspose(g, input, order) ==
    LET c == Len(g) + 1
        g1 == Append(g, MkNode(c, "Constant", <<>>, <<Len(order)>>, TRUE,
                               NoAttrs, order))
    IN  Append(g1, MkNode(c + 1, "Transpose", <<input, Src(c, 0)>>,
                          TransposeShape(g[input.node].shape, order),
                          TRUE, NoAttrs, <<>>))

\* A node gains or changes nothing but the listed field.
AddNode(st, nd) ==
    IF st.threw THEN st ELSE [st EXCEPT !.g = Append(@, nd)]

set_friendly_name(st, id, name) ==
    IF st.threw THEN st ELSE [st EXCEPT !.g[id].name = name]

\* copy_runtime_info(from, {to...}): every target takes the source's info.
copy_runtime_info(st, from, to) ==
    IF st.threw THEN st
    ELSE [st EXCEPT !.g = [i \in 1..Len(@) |->
              IF i \in to THEN [@[i] EXCEPT !.rt = @ \cup st.g[from].rt]
              ELSE @[i]]]

\* replace_node(target, replacement_values): every input reading output i of
\* the target is re-pointed to replacement_values[i].
replace_node(st, target, replacement_values) ==
    IF st.threw THEN st
    ELSE [st EXCEPT !.g = [c \in 1..Len(@) |->
              [@[c] EXCEPT !.inputs = [k \in 1..Len(@) |->
                  IF /\ st.g[c].inputs[k].node = target
                     /\ st.g[c].inputs[k].port < Len(replacement_values)
                  THEN replacement_values[st.g[c].inputs[k].port + 1]
                  ELSE st.g[c].inputs[k]]]]]

------------------------------------------------------------------------------
(* convert_layout.cpp: the helpers.  A helper works on st = [g, threw,     *)
(* calls]: the graph built so far, whether IE_THROW has been raised, and   *)
(* the helper calls made.  Once an exception is in flight nothing else     *)
(* runs.                                                                   *)

Start(g) == [g |-> g, threw |-> FALSE, calls |-> {}]

Call(fn, by, rank, threw, oob) ==
    [fn |-> fn, by |-> by, rank |-> rank, threw |-> threw, oob |-> oob]

transpose_on_input(st, input, rank, by) ==
    IF st.threw THEN st
    ELSE IF rank = 4 THEN
        [st EXCEPT !.g = MakeTranspose(@, input, nchw_to_nhwc),
                   !.calls = @ \cup {Call("transpose_on_input", by, rank, FALSE, FALSE)}]
    ELSE IF rank = 5 THEN
        [st EXCEPT !.g = MakeTranspose(@, input, ncdhw_to_ndhwc),
                   !.calls = @ \cup {Call("transpose_on_input", by, rank, FALSE, FALSE)}]
    ELSE
        [st EXCEPT !.threw = TRUE,
                   !.calls = @ \cup {Call("transpose_on_input", by, rank, TRUE, FALSE)}]

transpose_on_output(st, input, rank, by) ==
    IF st.threw THEN st
    ELSE IF rank = 4 THEN
        [st EXCEPT !.g = MakeTranspose(@, input, nhwc_to_nchw),
                   !.calls = @ \cup {Call("transpose_on_output", by, rank, FALSE, FALSE)}]
    ELSE IF rank = 5 THEN
        [st EXCEPT !.g = MakeTranspose(@, input, ndhwc_to_ncdhw),
                   !.calls = @ \cup {Call("transpose_on_output", by, rank, FALSE, FALSE)}]
    ELSE
        [st EXCEPT !.threw = TRUE,
                   !.calls = @ \cup {Call("transpose_on_output", by, rank, TRUE, FALSE)}]

\* The permutation transpose_output_shape picks for a rank.
ShapePerm_inverse(rank) == IF rank = 4 THEN nhwc_to_nchw ELSE ndhwc_to_ncdhw
ShapePerm(rank) == IF rank = 4 THEN nchw_to_nhwc ELSE ncdhw_to_ndhwc

\* Whether read i of transpose_output_shape stays inside perm and shape.
ReadInBounds(shape, rank, i) ==
    /\ i <= Len(ShapePerm(rank))
    /\ ShapePerm(rank)[i] + 1 <= Len(shape)

\* new_output_shape[i] = shape[perm[i]]; a read outside a vector yields
\* whatever is there (junk).
transpose_output_shape(shape, rank, junk) ==
    [i \in 1..rank |->
        IF ReadInBounds(shape, rank, i) THEN shape[ShapePerm(rank)[i] + 1]
        ELSE junk]

\* The call of transpose_output_shape, as the call log sees it.
ShapeCall(st, shape, rank, by) ==
    IF st.threw THEN st
    ELSE [st EXCEPT !.calls = @ \cup
            {Call("transpose_output_shape", by, rank, FALSE,
                  \E i \in 1..rank : ~ReadInBounds(shape, rank, i))}]

------------------------------------------------------------------------------
(* convert_layout.cpp: the four matcher callbacks.  A callback yields      *)
(* [status, g, registered, calls]: what it returned ("true", "false", or   *)
(* "threw" when an exception left it), the graph it leaves, the nodes it   *)
(* registered with its MatcherPass, and the helper calls it made.          *)

RankUnsupported_off_by_one(rank) == rank < 3 \/ rank > 5
RankUnsupported(rank) == rank < 4 \/ rank > 5

\* The callbacks build their nodes with std::make_shared and never call
\* register_new_node: the pass holds no new node after a callback.
MadeShared_registered(ids) == ids
MadeShared(ids) == <<>>

Declined(g) ==
    [status |-> "false", g |-> g, registered |-> <<>>, calls |-> {}]

\* An exception unwinds the callback: the nodes it made are released and
\* the graph is the one it was given.
Finished(g, st, made) ==
    IF st.threw
    THEN [status |-> "threw", g |-> g, registered |-> <<>>, calls |-> st.calls]
    ELSE [status |-> "true", g |-> st.g, registered |-> MadeShared(made),
          calls |-> st.calls]

\* The attributes handed to the new ArmConvolution.
ConvAttrs_swapped_pads(conv) ==
    [NoAttrs EXCEPT !.strides = conv.attrs.strides,
                    !.pads_begin = conv.attrs.pads_end,
                    !.pads_end = conv.attrs.pads_begin,
                    !.dilations = conv.attrs.dilations,
                    !.auto_pad = conv.attrs.auto_pad]
ConvAttrs(conv) ==
    [NoAttrs EXCEPT !.strides = conv.attrs.strides,
                    !.pads_begin = conv.attrs.pads_begin,
                    !.pads_end = conv.attrs.pads_end,
                    !.dilations = conv.attrs.dilations,
                    !.auto_pad = conv.attrs.auto_pad]

ConvertArmConvolutionLayout(g, node, tc, junk) ==
    LET by == "ConvertArmConvolutionLayout"
        conv == g[node]
        rank == Len(conv.shape)
        s1 == transpose_on_input(Start(g), conv.inputs[1], rank, by)
        activations_transpose == Len(s1.g)
        s2 == transpose_on_input(s1, conv.inputs[2], rank, by)
        weights_transpose == Len(s2.g)
        s3 == ShapeCall(s2, conv.shape, rank, by)
        output_shape == transpose_output_shape(conv.shape, rank, junk)
        new_conv == Len(s3.g) + 1
        ins == IF Len(conv.inputs) > 2
               THEN <<Src(activations_transpose, 0), Src(weights_transpose, 0),
                      conv.inputs[3]>>
               ELSE <<Src(activations_transpose, 0), Src(weights_transpose, 0)>>
        s4 == AddNode(s3, MkNode(new_conv, "ArmConvolution", ins, output_shape,
                                 TRUE, ConvAttrs(conv), <<>>))
        s5 == transpose_on_output(s4, Src(new_conv, 0), rank, by)
        transpose == Len(s5.g)
        s6 == set_friendly_name(s5, transpose, conv.name)
        s7 == copy_runtime_info(s6, node, {new_conv, activations_transpose,
                                           weights_transpose, transpose})
        s8 == replace_node(s7, node, <<Src(transpose, 0)>>)
    IN  IF tc THEN Declined(g)
        ELSE IF conv.type # "ArmConvolution" THEN Declined(g)
        ELSE IF RankUnsupported(rank) THEN Declined(g)
        ELSE Finished(g, s8, <<activations_transpose, weights_transpose,
                                new_conv, transpose>>)

PoolV1Attrs(pool) ==
    [NoAttrs EXCEPT !.strides = pool.attrs.strides,
                    !.pads_begin = pool.attrs.pads_begin,
                    !.pads_end = pool.attrs.pads_end,
                    !.kernel = pool.attrs.kernel,
                    !.rounding_type = pool.attrs.rounding_type,
                    !.auto_pad = pool.attrs.auto_pad]

\* What follows the three early returns of the max-pool-1 callback.
MaxPoolV1Rewrite(g, node, junk) ==
    LET by == "ConvertArmMaxPoolV1Layout"
        pool == g[node]
        rank == Len(pool.shape)
        s1 == transpose_on_input(Start(g), pool.inputs[1], rank, by)
        activations_transpose == Len(s1.g)
        s2 == ShapeCall(s1, pool.shape, rank, by)
        output_shape == transpose_output_shape(pool.shape, rank, junk)
        new_pool == Len(s2.g) + 1
        s3 == AddNode(s2, MkNode(new_pool, "ArmMaxPoolV1",
                                 <<Src(activations_transpose, 0)>>, output_shape,
                                 TRUE, PoolV1Attrs(pool), <<>>))
        s4 == transpose_on_output(s3, Src(new_pool, 0), rank, by)
        transpose == Len(s4.g)
        s5 == set_friendly_name(s4, transpose, pool.name)
        s6 == copy_runtime_info(s5, node, {new_pool, activations_transpose,
                                           transpose})
        s7 == replace_node(s6, node, <<Src(transpose, 0)>>)
    IN  Finished(g, s7, <<activations_transpose, new_pool, transpose>>)

\* The same callback asking transformation_callback only after it has made
\* the input Transpose.
ConvertArmMaxPoolV1Layout_late_check(g, node, tc, junk) ==
    LET pool == g[node]
        rank == Len(pool.shape)
        early == transpose_on_input(Start(g), pool.inputs[1], rank,
                                    "ConvertArmMaxPoolV1Layout")
    IN  IF pool.type # "ArmMaxPoolV1" THEN Declined(g)
        ELSE IF RankUnsupported(rank) THEN Declined(g)
        ELSE IF tc THEN Declined(early.g)
        ELSE MaxPoolV1Rewrite(g, node, junk)

ConvertArmMaxPoolV1Layout(g, node, tc, junk) ==
    LET pool == g[node]
        rank == Len(pool.shape)
    IN  IF tc THEN Declined(g)
        ELSE IF pool.type # "ArmMaxPoolV1" THEN Declined(g)
        ELSE IF RankUnsupported(rank) THEN Declined(g)
        ELSE MaxPoolV1Rewrite(g, node, junk)

\* The replacement values handed to replace_node by the max-pool-8 callback.
MaxPoolV8Replacements_crossed(transpose, transpose_on_indexes) ==
    <<Src(transpose_on_indexes, 0), Src(transpose, 0)>>
MaxPoolV8Replacements(transpose, transpose_on_indexes) ==
    <<Src(transpose, 0), Src(transpose_on_indexes, 0)>>

\* The axis test of the max-pool-8 callback: true when it returns false.
AxisRejected(axis, rank) ==
    axis > 1 \/ (axis < 0 /\ axis > (0 - rank) - 1)

ConvertArmMaxPoolV8Layout(g, node, tc, junk) ==
    LET by == "ConvertArmMaxPoolV8Layout"
        pool == g[node]
        rank == Len(pool.shape)
        axis == pool.attrs.axis
        s1 == transpose_on_input(Start(g), pool.inputs[1], rank, by)
        activations_transpose == Len(s1.g)
        s2 == ShapeCall(s1, pool.shape, rank, by)
        output_shape == transpose_output_shape(pool.shape, rank, junk)
        new_pool == Len(s2.g) + 1
        s3 == AddNode(s2, MkNode(new_pool, "ArmMaxPoolV8",
                                 <<Src(activations_transpose, 0)>>, output_shape,
                                 TRUE,
                                 [NoAttrs EXCEPT
                                    !.strides = pool.attrs.strides,
                                    !.dilations = pool.attrs.dilations,
                                    !.pads_begin = pool.attrs.pads_begin,
                                    !.pads_end = pool.attrs.pads_end,
                                    !.kernel = pool.attrs.kernel,
                                    !.rounding_type = pool.attrs.rounding_type,
                                    !.auto_pad = pool.attrs.auto_pad,
                                    !.index_element_type = pool.attrs.index_element_type,
                                    !.axis = pool.attrs.axis],
                                 <<>>))
        s4 == transpose_on_output(s3, Src(new_pool, 0), rank, by)
        transpose == Len(s4.g)
        s5 == set_friendly_name(s4, transpose, Append(pool.name, ".0"))
        s6 == transpose_on_output(s5, Src(new_pool, 1), rank, by)
        transpose_on_indexes == Len(s6.g)
        s7 == set_friendly_name(s6, transpose_on_indexes, Append(pool.name, ".1"))
        s8 == copy_runtime_info(s7, node, {new_pool, activations_transpose,
                                           transpose, transpose_on_indexes})
        s9 == replace_node(s8, node,
                           MaxPoolV8Replacements(transpose, transpose_on_indexes))
    IN  IF tc THEN Declined(g)
        ELSE IF pool.type # "ArmMaxPoolV8" THEN Declined(g)
        ELSE IF RankUnsupported(rank) THEN Declined(g)
        ELSE IF AxisRejected(axis, rank) THEN Declined(g)
        ELSE Finished(g, s9, <<activations_transpose, new_pool, transpose,
                                transpose_on_indexes>>)

ConvertArmAvgPoolLayout(g, node, tc, junk) ==
    LET by == "ConvertArmAvgPoolLayout"
        pool == g[node]
        rank == Len(pool.shape)
        s1 == transpose_on_input(Start(g), pool.inputs[1], rank, by)
        activations_transpose == Len(s1.g)
        s2 == ShapeCall(s1, pool.shape, rank, by)
        output_shape == transpose_output_shape(pool.shape, rank, junk)
        new_pool == Len(s2.g) + 1
        s3 == AddNode(s2, MkNode(new_pool, "ArmAvgPool",
                                 <<Src(activations_transpose, 0)>>, output_shape,
                                 TRUE,
                                 [NoAttrs EXCEPT
                                    !.strides = pool.attrs.strides,
                                    !.pads_begin = pool.attrs.pads_begin,
                                    !.pads_end = pool.attrs.pads_end,
                                    !.kernel = pool.attrs.kernel,
                                    !.exclude_pad = pool.attrs.exclude_pad,
                                    !.rounding_type = pool.attrs.rounding_type,
                                    !.auto_pad = pool.attrs.auto_pad],
                                 <<>>))
        s4 == transpose_on_output(s3, Src(new_pool, 0), rank, by)
        transpose == Len(s4.g)
        s5 == set_friendly_name(s4, transpose, pool.name)
        s6 == copy_runtime_info(s5, node, {new_pool, activations_transpose,
                                           transpose})
        s7 == replace_node(s6, node, <<Src(transpose, 0)>>)
    IN  IF tc THEN Declined(g)
        ELSE IF pool.type # "ArmAvgPool" THEN Declined(g)
        ELSE IF RankUnsupported(rank) THEN Declined(g)
        ELSE Finished(g, s7, <<activations_transpose, new_pool, transpose>>)

------------------------------------------------------------------------------
(* The graphs ConvertLayout is run on: data -> op1 -> op2 -> result, with  *)
(* a second reader of op1 and a reader for every index output.             *)

Kinds ==
    {[type |-> "ArmConvolution", nin |-> 2, axis |-> 0],
     [type |-> "ArmConvolution", nin |-> 3, axis |-> 0],
     [type |-> "ArmMaxPoolV1", nin |-> 1, axis |-> 0],
     [type |-> "ArmAvgPool", nin |-> 1, axis |-> 0],
     [type |-> "Relu", nin |-> 1, axis |-> 0]}
    \cup {[type |-> "ArmMaxPoolV8", nin |-> 1, axis |-> a] : a \in Axes}

\* Dimensions that differ from node to node and from axis to axis.
Dims(seed, rank) == [i \in 1..rank |-> 10 * seed + i]

\* A node of the model as given; rank 0 stands for a dynamic rank here.
Given(type, label, inputs, seed, rank, attrs) ==
    [type |-> type, inputs |-> inputs, name |-> <<label>>, rt |-> {label},
     shape |-> Dims(seed, rank), static |-> rank > 0, attrs |-> attrs,
     value |-> <<>>]

OpAttrs(seed, kind) ==
    [strides |-> <<seed, 1>>, dilations |-> <<seed, 2>>,
     pads_begin |-> <<seed, 3>>, pads_end |-> <<seed, 4>>,
     kernel |-> <<seed, 5>>, rounding_type |-> "ceil",
     auto_pad |-> "same_upper", exclude_pad |-> TRUE,
     index_element_type |-> "i32", axis |-> kind.axis]

OpInputs(kind, data) ==
    IF kind.nin = 3 THEN <<data, Src(2, 0), Src(3, 0)>>
    ELSE IF kind.nin = 2 THEN <<data, Src(2, 0)>>
    ELSE <<data>>

Model(k1, k2, rank) ==
    <<Given("Parameter", "data", <<>>, 1, rank, NoAttrs),
      Given("Constant", "weights", <<>>, 2, rank, NoAttrs),
      Given("Constant", "bias", <<>>, 3, 1, NoAttrs),
      Given(k1.type, "op1", OpInputs(k1, Src(1, 0)), 4, rank, OpAttrs(4, k1)),
      Given(k2.type, "op2", OpInputs(k2, Src(4, 0)), 5, rank, OpAttrs(5, k2)),
      Given("Result", "result", <<Src(5, 0)>>, 6, rank, NoAttrs),
      Given("Result", "side", <<Src(4, 0)>>, 7, rank, NoAttrs)>>
    \o (IF k1.type = "ArmMaxPoolV8"
        THEN <<Given("Result", "indices1", <<Src(4, 1)>>, 8, rank, NoAttrs)>>
        ELSE <<>>)
    \o (IF k2.type = "ArmMaxPoolV8"
        THEN <<Given("Result", "indices2", <<Src(5, 1)>>, 9, rank, NoAttrs)>>
        ELSE <<>>)

\* The op nodes of Model.
Ops == {4, 5}

\* What a read outside a vector may yield.
Junk == {0, 1}

------------------------------------------------------------------------------
(* Mod: element-wise modulo with numpy broadcasting *)

\* C++ integer division and remainder truncate towards zero.
TruncDiv(a, b) ==
    IF (a >= 0) = (b > 0)
    THEN (IF a >= 0 THEN a ELSE 0 - a) \div (IF b > 0 THEN b ELSE 0 - b)
    ELSE 0 - ((IF a >= 0 THEN a ELSE 0 - a) \div (IF b > 0 THEN b ELSE 0 - b))

ModOp_swapped(a, b) == b - a * TruncDiv(b, a)
ModOp(a, b) == a - b * TruncDiv(a, b)

\* A mapper is [rows, cols]: whether the input is broadcast along that axis.
SrcSize(d, m) == (IF m.rows THEN 1 ELSE d[1]) * (IF m.cols THEN 1 ELSE d[2])

\* NumpyBroadcastMapper: the input offset read for output offset i.
Mapper_no_broadcast(d, m, i) == i
Mapper(d, m, i) ==
    (IF m.rows THEN 0 ELSE i \div d[2]) * (IF m.cols THEN 1 ELSE d[2])
    + (IF m.cols THEN 0 ELSE i % d[2])

\* The threads of the launch: whole blocks covering out_num_elements.
Grid(n, tpb) == 0..(((n + tpb - 1) \div tpb) * tpb - 1)

Cell(w, v) == [written |-> w, value |-> v]

------------------------------------------------------------------------------
(* Initial states *)

NoMod ==
    /\ in0 = <<>> /\ in1 = <<>> /\ out = <<>>
    /\ mapper0 = [rows |-> FALSE, cols |-> FALSE]
    /\ mapper1 = [rows |-> FALSE, cols |-> FALSE]
    /\ dims = <<0, 0>>
    /\ pending = {}

\* ConvertLayout is about to run on a model: the queue holds its nodes in
\* topological order.
InitRun ==
    /\ entry = "ConvertLayout"
    /\ \E k1 \in Kinds, k2 \in Kinds, rank \in Ranks \cup {0} :
          nodes = Model(k1, k2, rank)
    /\ nodes_to_run = [i \in 1..Len(nodes) |-> i]
    /\ skip \in SUBSET Ops
    /\ applied = <<>>
    /\ calls = {}
    /\ trail = <<>>
    /\ NoMod

\* A helper is about to be called on one value of some shape or axis order.
InitHelpers ==
    /\ entry = "helpers"
    /\ \E rank \in Ranks :
       \E shape \in [1..rank -> 1..MaxDim] \cup {[i \in 1..rank |-> i - 1]} :
          nodes = <<[Given("Parameter", "value", <<>>, 1, rank, NoAttrs)
                       EXCEPT !.shape = shape]>>
    /\ nodes_to_run = <<>>
    /\ skip = {}
    /\ applied = <<>>
    /\ calls = {}
    /\ trail = <<>>
    /\ NoMod

\* Buffer contents: distinct dividends, distinct non-zero divisors.
Dividend(k) == IF k % 2 = 0 THEN 7 + k ELSE 0 - (9 + k)
Divisor(k) == IF k % 2 = 0 THEN 0 - (2 + k) ELSE 3 + k

\* Mod has been constructed and its kernel launched; no thread has run.
InitMod ==
    /\ entry = "Mod"
    /\ nodes = <<>> /\ nodes_to_run = <<>> /\ skip = {}
    /\ applied = <<>> /\ calls = {} /\ trail = <<>>
    /\ dims \in {d \in (1..MaxElems) \X (1..MaxElems) : d[1] * d[2] <= MaxElems}
    /\ mapper0 \in [rows : BOOLEAN, cols : BOOLEAN]
    /\ mapper1 \in [rows : BOOLEAN, cols : BOOLEAN]
    /\ in0 = [k \in 1..SrcSize(dims, mapper0) |-> Dividend(k)]
    /\ in1 = [k \in 1..SrcSize(dims, mapper1) |-> Divisor(k)]
    /\ out = [k \in 1..(dims[1] * dims[2] + 1) |-> Cell(FALSE, 0)]
    /\ \E tpb \in 1..MaxThreads : pending = Grid(dims[1] * dims[2], tpb)

Init == InitRun \/ InitHelpers \/ InitMod

------------------------------------------------------------------------------
(* GraphRewrite running ConvertLayout's four matchers *)

\* run_matcher_pass: the callback's outcome is taken over, the nodes it
\* registered go to the front of the queue; an exception ends the run.
RunMatcherPass(pass, node, r) ==
    /\ nodes' = r.g
    /\ applied' = Append(applied, [node |-> node, pass |-> pass,
                                   status |-> r.status])
    /\ calls' = calls \cup r.calls
    /\ nodes_to_run' = IF r.status = "threw" THEN <<>>
                       ELSE r.registered \o Tail(nodes_to_run)
    /\ UNCHANGED <<skip, trail, entry>>
    /\ UNCHANGED modVars

\* wrap_type<T>(has_static_rank()) on the node at the head of the queue.
Matches(type) ==
    /\ nodes_to_run # <<>>
    /\ nodes[Head(nodes_to_run)].type = type
    /\ nodes[Head(nodes_to_run)].static

ApplyConvertArmConvolutionLayout ==
    /\ Matches("ArmConvolution")
    /\ \E junk \in Junk :
          LET node == Head(nodes_to_run)
          IN  RunMatcherPass("ConvertArmConvolutionLayout", node,
                  ConvertArmConvolutionLayout(nodes, node, node \in skip, junk))

ApplyConvertArmMaxPoolV1Layout ==
    /\ Matches("ArmMaxPoolV1")
    /\ \E junk \in Junk :
          LET node == Head(nodes_to_run)
          IN  RunMatcherPass("ConvertArmMaxPoolV1Layout", node,
                  ConvertArmMaxPoolV1Layout(nodes, node, node \in skip, junk))

ApplyConvertArmMaxPoolV8Layout ==
    /\ Matches("ArmMaxPoolV8")
    /\ \E junk \in Junk :
          LET node == Head(nodes_to_run)
          IN  RunMatcherPass("ConvertArmMaxPoolV8Layout", node,
                  ConvertArmMaxPoolV8Layout(nodes, node, node \in skip, junk))

ApplyConvertArmAvgPoolLayout ==
    /\ Matches("ArmAvgPool")
    /\ \E junk \in Junk :
          LET node == Head(nodes_to_run)
          IN  RunMatcherPass("ConvertArmAvgPoolLayout", node,
                  ConvertArmAvgPoolLayout(nodes, node, node \in skip, junk))

RootTypes == {"ArmConvolution", "ArmMaxPoolV1", "ArmMaxPoolV8", "ArmAvgPool"}

\* No matcher of ConvertLayout matches the node: it is only taken off.
NoMatcher ==
    /\ nodes_to_run # <<>>
    /\ \/ nodes[Head(nodes_to_run)].type \notin RootTypes
       \/ ~nodes[Head(nodes_to_run)].static
    /\ nodes_to_run' = Tail(nodes_to_run)
    /\ UNCHANGED <<nodes, skip, applied, calls, trail, entry>>
    /\ UNCHANGED modVars

------------------------------------------------------------------------------
(* The helpers called directly, on the last value made *)

Last == Len(nodes)

CanCall ==
    /\ entry = "helpers"
    /\ Len(trail) < MaxSteps
    /\ \A c \in calls : ~c.threw

Direct(fn, st) ==
    /\ nodes' = IF st.threw THEN nodes ELSE st.g
    /\ calls' = calls \cup st.calls
    /\ trail' = Append(trail, fn)
    /\ UNCHANGED <<nodes_to_run, skip, applied, entry>>
    /\ UNCHANGED modVars

CallTransposeOnInput ==
    /\ CanCall
    /\ Direct("transpose_on_input",
              transpose_on_input(Start(nodes), Src(Last, 0),
                                 Len(nodes[Last].shape), "direct"))

CallTransposeOnOutput ==
    /\ CanCall
    /\ Direct("transpose_on_output",
              transpose_on_output(Start(nodes), Src(Last, 0),
                                  Len(nodes[Last].shape), "direct"))

\* The shape returned becomes the output shape of a new node, as in the
\* callbacks.
CallTransposeOutputShape ==
    /\ CanCall
    /\ \E junk \in Junk :
          LET shape == nodes[Last].shape
              rank == Len(shape)
          IN  Direct("transpose_output_shape",
                     AddNode(ShapeCall(Start(nodes), shape, rank, "direct"),
                             MkNode(Last + 1, "Parameter", <<>>,
                                    transpose_output_shape(shape, rank, junk),
                                    TRUE, NoAttrs, <<>>)))

------------------------------------------------------------------------------
(* Mod::operator(): one kernel thread *)

\* Thread i of the launch: inside the range it writes out[i], outside it
\* does nothing.
ModThread(i) ==
    /\ i \in pending
    /\ pending' = pending \ {i}
    /\ out' = IF i < dims[1] * dims[2]
              THEN [out EXCEPT ![i + 1] =
                      Cell(TRUE, ModOp(in0[Mapper(dims, mapper0, i) + 1],
                                       in1[Mapper(dims, mapper1, i) + 1]))]
              ELSE out
    /\ UNCHANGED <<in0, in1, mapper0, mapper1, dims>>
    /\ UNCHANGED <<nodes, nodes_to_run, skip, applied, calls, trail, entry>>

ModKernel == \E i \in pending : ModThread(i)

------------------------------------------------------------------------------

Next ==
    \/ ApplyConvertArmConvolutionLayout
    \/ ApplyConvertArmMaxPoolV1Layout
    \/ ApplyConvertArmMaxPoolV8Layout
    \/ ApplyConvertArmAvgPoolLayout
    \/ NoMatcher
    \/ CallTransposeOnInput
    \/ CallTransposeOnOutput
    \/ CallTransposeOutputShape
    \/ ModKernel

Spec == Init /\ [][Next]_vars

------------------------------------------------------------------------------
(* Vocabulary of the properties *)

\* The permutations as the properties state them.
ChannelFirstToLast(rank) ==
    IF rank = 4 THEN <<0, 2, 3, 1>> ELSE <<0, 2, 3, 4, 1>>
ChannelLastToFirst(rank) ==
    IF rank = 4 THEN <<0, 3, 1, 2>> ELSE <<0, 4, 1, 2, 3>>

\* Node t of g is a Transpose of src whose order input is a Constant
\* holding order.
IsTransposeOf(g, t, src, order) ==
    /\ g[t].type = "Transpose"
    /\ Len(g[t].inputs) = 2
    /\ g[t].inputs[1] = src
    /\ g[t].inputs[2].port = 0
    /\ g[g[t].inputs[2].node].type = "Constant"
    /\ g[g[t].inputs[2].node].value = order

\* The step is one callback invocation; Invoked is its log entry.
IsInvocation == Len(applied') = Len(applied) + 1
Invoked == applied'[Len(applied')]

\* Node n can be rewritten as far as type, rank and transformation_callback go.
Supported(n, types) ==
    /\ nodes[n].type \in types
    /\ nodes[n].static
    /\ Len(nodes[n].shape) \in {4, 5}
    /\ n \notin skip

SingleOutputTypes == {"ArmConvolution", "ArmMaxPoolV1", "ArmAvgPool"}

\* The values made by direct helper calls, oldest first.
Values == SelectSeq(nodes, LAMBDA nd : nd.type # "Constant")

------------------------------------------------------------------------------
(* C1: a convolution, max-pool-1 or average-pool node of static rank 4 or  *)
(* 5 that transformation_callback does not exclude is replaced by          *)
(* Transpose(channel-first-to-last) -> operator of the same type ->         *)
(* Transpose(channel-last-to-first); every reader of the original reads    *)
(* the final Transpose afterwards and the original has no reader left.     *)

C1_Step ==
    (IsInvocation /\ Supported(Invoked.node, SingleOutputTypes)) =>
        LET n == Invoked.node
            rank == Len(nodes[n].shape)
            ids == 1..Len(nodes')
        IN  /\ Invoked.status = "true"
            /\ \E ti \in ids :
                /\ IsTransposeOf(nodes', ti, nodes[n].inputs[1],
                                 ChannelFirstToLast(rank))
                /\ \E m \in ids :
                    /\ m # n
                    /\ nodes'[m].type = nodes[n].type
                    /\ nodes'[m].inputs[1] = Src(ti, 0)
                    /\ \E t \in ids :
                        /\ IsTransposeOf(nodes', t, Src(m, 0),
                                         ChannelLastToFirst(rank))
                        /\ \A ck \in Consumers(nodes, n, 0) :
                              nodes'[ck[1]].inputs[ck[2]] = Src(t, 0)
            /\ Consumers(nodes, n, 0) # {}
            /\ Consumers(nodes', n, 0) = {}

\* C1: every callback invocation on such a node wraps it as C1_Step says.
C1_Wrapped == [][C1_Step]_vars

C1_Witness ==
    /\ Len(applied) = 2
    /\ applied[1].pass = "ConvertArmConvolutionLayout"
    /\ applied[2].pass = "ConvertArmAvgPoolLayout"
    /\ applied[1].status = "true" /\ applied[2].status = "true"
    /\ Len(nodes[4].shape) = 5

------------------------------------------------------------------------------
(* C2: for rank 4 and rank 5 the permutation of transpose_on_output is the *)
(* inverse of the permutation of transpose_on_input: applying one and then *)
(* the other, in either order, to any axis order or shape gives it back.   *)

C2_Inverse ==
    entry = "helpers" =>
        \A k \in 1..(Len(trail) - 1) :
            (/\ {trail[k], trail[k + 1]}
                    = {"transpose_on_input", "transpose_on_output"}
             /\ Len(nodes[1].shape) \in {4, 5})
            => /\ Len(Values) >= k + 2
               /\ Values[k + 2].shape = Values[k].shape

C2_Witness ==
    /\ entry = "helpers"
    /\ trail = <<"transpose_on_output", "transpose_on_input">>
    /\ nodes[1].shape = <<0, 1, 2, 3, 4>>
    /\ Values[2].shape # nodes[1].shape

------------------------------------------------------------------------------
(* C3: the shape transpose_output_shape gives the new operator is          *)
(* new[i] = old[perm[i]] with perm the channel-first-to-last permutation,  *)
(* and the final Transpose turns it back into the original output shape:   *)
(* readers of a rewritten node see the shape they saw before.              *)

C3_Direct ==
    entry = "helpers" =>
        \A k \in 1..Len(trail) :
            (/\ trail[k] = "transpose_output_shape"
             /\ Len(nodes[1].shape) \in {4, 5})
            => /\ Len(Values) >= k + 1
               /\ Len(Values[k + 1].shape) = Len(Values[k].shape)
               /\ \A i \in 1..Len(Values[k].shape) :
                     Values[k + 1].shape[i] =
                        Values[k].shape[ChannelFirstToLast(Len(Values[k].shape))[i] + 1]
               /\ (k < Len(trail) /\ trail[k + 1] = "transpose_on_output")
                     => Values[k + 2].shape = Values[k].shape

C3_Step ==
    (IsInvocation /\ Invoked.status = "true") =>
        LET n == Invoked.node
            old == nodes[n].shape
        IN  \A p \in {0, 1} : \A ck \in Consumers(nodes, n, p) :
                LET t == nodes'[ck[1]].inputs[ck[2]].node
                    m == nodes'[t].inputs[1].node
                IN  /\ t # n
                    /\ nodes'[t].shape = old
                    /\ Len(nodes'[m].shape) = Len(old)
                    /\ \A i \in 1..Len(old) :
                          nodes'[m].shape[i] =
                              old[ChannelFirstToLast(Len(old))[i] + 1]

\* C3: every rewrite step and every direct helper call preserves the shape
\* as C3_Step and C3_Direct say.
C3_ShapePreserved == [][C3_Step /\ C3_Direct']_vars

C3_Witness ==
    /\ entry = "helpers"
    /\ trail = <<"transpose_output_shape", "transpose_on_output">>
    /\ nodes[1].shape = <<1, 2, 1, 2, 2>>
    /\ Values[2].shape = <<1, 1, 2, 2, 2>>

------------------------------------------------------------------------------
(* C4: Mod::operator() writes out[i] = in0[in0_mapper(i)] mod             *)
(* in1[in1_mapper(i)] for every i in 0..out_num_elements-1, writes no      *)
(* element outside that range and leaves the inputs as they were.          *)

Abs(x) == IF x < 0 THEN 0 - x ELSE x

\* r is the remainder of a by b as C++ defines it: a = b*q + r with q the
\* quotient rounded towards zero.
IsRemainder(r, a, b) ==
    /\ Abs(r) < Abs(b)
    /\ r = 0 \/ (r > 0) = (a > 0)
    /\ \E q \in (0 - Abs(a))..Abs(a) : a = b * q + r

\* The input offset numpy broadcasting pairs with output offset i: the
\* output's row and column, each replaced by 0 along a broadcast axis.
BroadcastOffset(m, i) ==
    LET row == IF m.rows THEN 0 ELSE i \div dims[2]
        col == IF m.cols THEN 0 ELSE i % dims[2]
        width == IF m.cols THEN 1 ELSE dims[2]
    IN  row * width + col

\* C4: threads that ran wrote the remainder at their own index, nothing else
\* of out is written, in0 and in1 are as given.
C4_ModWritesRange ==
    entry = "Mod" =>
        LET n == dims[1] * dims[2]
        IN  /\ \A i \in 0..(n - 1) :
                IF i \in pending THEN ~out[i + 1].written
                ELSE /\ out[i + 1].written
                     /\ IsRemainder(out[i + 1].value,
                                    in0[BroadcastOffset(mapper0, i) + 1],
                                    in1[BroadcastOffset(mapper1, i) + 1])
            /\ Len(out) = n + 1
            /\ ~out[n + 1].written
            /\ in0 = [k \in 1..Len(in0) |-> Dividend(k)]
            /\ in1 = [k \in 1..Len(in1) |-> Divisor(k)]

C4_Witness ==
    /\ entry = "Mod"
    /\ pending = {}
    /\ dims = <<2, 2>>
    /\ mapper0 = [rows |-> TRUE, cols |-> FALSE]
    /\ mapper1 = [rows |-> FALSE, cols |-> TRUE]
    /\ out[4].value = ModOp(in0[2], in1[2])

------------------------------------------------------------------------------
(* C5: the new convolution reads the weights through a Transpose with the  *)
(* same channel-first-to-last permutation as the activations, takes the    *)
(* bias untransposed exactly when the original has more than two inputs,   *)
(* has as many inputs as the original, and has the original's strides,     *)
(* pads_begin, pads_end, dilations and auto_pad.                           *)

C5_Step ==
    (/\ IsInvocation
     /\ Invoked.pass = "ConvertArmConvolutionLayout"
     /\ Invoked.status = "true") =>
        LET n == Invoked.node
            conv == nodes[n]
            rank == Len(conv.shape)
        IN  \E m \in (Len(nodes) + 1)..Len(nodes') :
                /\ nodes'[m].type = "ArmConvolution"
                /\ Len(nodes'[m].inputs) = Len(conv.inputs)
                /\ nodes'[m].inputs[1].port = 0
                /\ IsTransposeOf(nodes', nodes'[m].inputs[1].node,
                                 conv.inputs[1], ChannelFirstToLast(rank))
                /\ nodes'[m].inputs[2].port = 0
                /\ IsTransposeOf(nodes', nodes'[m].inputs[2].node,
                                 conv.inputs[2], ChannelFirstToLast(rank))
                /\ Len(conv.inputs) > 2 => nodes'[m].inputs[3] = conv.inputs[3]
                /\ nodes'[m].attrs.strides = conv.attrs.strides
                /\ nodes'[m].attrs.pads_begin = conv.attrs.pads_begin
                /\ nodes'[m].attrs.pads_end = conv.attrs.pads_end
                /\ nodes'[m].attrs.dilations = conv.attrs.dilations
                /\ nodes'[m].attrs.auto_pad = conv.attrs.auto_pad

\* C5: every successful convolution rewrite satisfies C5_Step.
C5_ConvInputsAndAttrs == [][C5_Step]_vars

C5_Witness ==
    /\ Len(applied) = 2
    /\ applied[1].pass = "ConvertArmConvolutionLayout"
    /\ applied[2].pass = "ConvertArmConvolutionLayout"
    /\ applied[1].status = "true" /\ applied[2].status = "true"
    /\ Len(nodes[4].inputs) = 3 /\ Len(nodes[5].inputs) = 2
    /\ Len(nodes[4].shape) = 4

------------------------------------------------------------------------------
(* C6: a rewritten max-pool-8 gets one channel-last-to-first Transpose per *)
(* output; readers of original output 0 read the Transpose of new output   *)
(* 0, readers of original output 1 the Transpose of new output 1, and the  *)
(* Transposes are named <original name>.0 and <original name>.1.           *)

C6_Step ==
    (/\ IsInvocation
     /\ Invoked.pass = "ConvertArmMaxPoolV8Layout"
     /\ Invoked.status = "true") =>
        LET n == Invoked.node
            rank == Len(nodes[n].shape)
            made == (Len(nodes) + 1)..Len(nodes')
        IN  \E m \in made : \E t0 \in made : \E t1 \in made :
                /\ nodes'[m].type = "ArmMaxPoolV8"
                /\ t0 # t1
                /\ IsTransposeOf(nodes', t0, Src(m, 0), ChannelLastToFirst(rank))
                /\ IsTransposeOf(nodes', t1, Src(m, 1), ChannelLastToFirst(rank))
                /\ nodes'[t0].name = nodes[n].name \o <<".0">>
                /\ nodes'[t1].name = nodes[n].name \o <<".1">>
                /\ Consumers(nodes, n, 0) # {}
                /\ Consumers(nodes, n, 1) # {}
                /\ \A ck \in Consumers(nodes, n, 0) :
                      nodes'[ck[1]].inputs[ck[2]] = Src(t0, 0)
                /\ \A ck \in Consumers(nodes, n, 1) :
                      nodes'[ck[1]].inputs[ck[2]] = Src(t1, 0)

\* C6: every successful max-pool-8 rewrite satisfies C6_Step.
C6_OutputsNotCrossed == [][C6_Step]_vars

C6_Witness ==
    /\ Len(applied) = 2
    /\ applied[1].pass = "ConvertArmMaxPoolV8Layout"
    /\ applied[2].pass = "ConvertArmMaxPoolV8Layout"
    /\ applied[1].status = "true" /\ applied[2].status = "true"
    /\ nodes[4].attrs.axis = 0 /\ nodes[5].attrs.axis = 1
    /\ Len(nodes[4].shape) = 5

------------------------------------------------------------------------------
(* C7: the max-pool-8 callback rewrites a node only when its axis is 0 or  *)
(* 1; for every other axis, every negative one included, it returns false. *)

------------------------------------------------------------------------------
(* C8: a run of ConvertLayout ends and wraps every eligible original node  *)
(* exactly once: each step takes the visited node off the queue and puts   *)
(* none on, so the operator a callback makes is never visited; no node is  *)
(* given to more than one callback.                                        *)

TimesWrapped(log, n) ==
    Cardinality({k \in 1..Len(log) : log[k].node = n /\ log[k].status = "true"})

C8_Step ==
    entry = "ConvertLayout" =>
        /\ Len(nodes_to_run) > 0
        /\ nodes_to_run' = Tail(nodes_to_run)
        /\ \A i \in 1..Len(nodes_to_run') : nodes_to_run'[i] <= Len(nodes)
        /\ \A a \in 1..Len(applied'), b \in 1..Len(applied') :
              a # b => applied'[a].node # applied'[b].node
        /\ \A n \in Ops : TimesWrapped(applied', n) <= 1
        /\ nodes_to_run' = <<>> =>
              \A n \in Ops :
                  (\/ Supported(n, SingleOutputTypes)
                   \/ (/\ Supported(n, {"ArmMaxPoolV8"})
                       /\ nodes[n].attrs.axis \in {0, 1}))
                  => TimesWrapped(applied', n) = 1

\* C8: every step of a ConvertLayout run satisfies C8_Step.
C8_EachNodeOnce == [][C8_Step]_vars

C8_Witness ==
    /\ entry = "ConvertLayout"
    /\ nodes_to_run = <<>>
    /\ Len(applied) = 2
    /\ applied[1].status = "true" /\ applied[2].status = "true"
    /\ applied[1].pass = "ConvertArmMaxPoolV1Layout"
    /\ applied[2].pass = "ConvertArmConvolutionLayout"

------------------------------------------------------------------------------
(* C9: a callback that returns false leaves the graph exactly as it was:   *)
(* no node made, no edge, name or runtime info changed.                    *)

C9_Step ==
    (IsInvocation /\ Invoked.status = "false") => nodes' = nodes

\* C9: every callback invocation that returns false satisfies C9_Step.
C9_DeclineChangesNothing == [][C9_Step]_vars

C9_Witness ==
    /\ Len(applied) = 2
    /\ applied[1].status = "false" /\ applied[2].status = "false"
    /\ applied[1].pass = "ConvertArmMaxPoolV1Layout"
    /\ applied[2].pass = "ConvertArmMaxPoolV8Layout"
    /\ 4 \in skip
    /\ Len(nodes[5].shape) = 4
    /\ nodes[5].attrs.axis = 2

------------------------------------------------------------------------------
(* C10: transpose_on_input and transpose_on_output raise "unsupported      *)
(* rank" for every rank other than 4 and 5 and for no other; the callbacks *)
(* call the helpers with rank 4 or 5 only, never raise, and every read of  *)
(* transpose_output_shape stays inside the node's output shape.            *)

C10_RanksChecked ==
    /\ \A c \in calls :
        /\ c.fn \in {"transpose_on_input", "transpose_on_output"}
              => (c.threw <=> c.rank \notin {4, 5})
        /\ c.by # "direct" => (c.rank \in {4, 5} /\ ~c.threw /\ ~c.oob)
    /\ \A k \in 1..Len(applied) : applied[k].status # "threw"

C10_Witness ==
    /\ Len(applied) = 2
    /\ \E c \in calls : /\ c.fn = "transpose_output_shape"
                        /\ c.by = "ConvertArmMaxPoolV8Layout"
                        /\ c.rank = 5
    /\ \E c \in calls : /\ c.fn = "transpose_on_output"
                        /\ c.by = "ConvertArmConvolutionLayout"

====
